---- MODULE Spec2Model ----
(***************************************************************************)
(* PID-Simulations: the PID controller classes and the simulation loop     *)
(* that drives the room-heater plant.                                      *)
(*                                                                         *)
(* Numbers.  The program computes with JavaScript numbers.  The model      *)
(* computes with exact rationals [n |-> numerator, d |-> denominator],     *)
(* kept in lowest terms with d > 0, so that e * dt, x / dt and x / C are   *)
(* the mathematical values.  The two non-numbers the code uses are records *)
(* of the same shape with d = 0: Null (last_error = null) and Undefined    *)
(* (pid_vars.min / pid_vars.max = undefined).  Every dt the model draws is *)
(* strictly positive, so no division by zero occurs.                       *)
(***************************************************************************)
EXTENDS Integers, Sequences, FiniteSets, TLC

VARIABLES
    impl,       \* which controller class the client has constructed
    pidc,       \* the PIDController object        (src/src/pid_controller.ts)
    spid,       \* the PID object with stored gains (src/unnamed/part_000:16)
    pid,        \* the PID object configured per call (src/unnamed/part_000:79)
    call,       \* the most recent controller operation, its arguments and result
    hist,       \* <<e, dt>> of every update since construction or the last reset
    ncalls,     \* number of controller operations issued so far
    controls,   \* control_bar.controls: label -> SliderElem
    value,      \* PIDSimulation.value, the room temperature
    chart,      \* simulation_chart: plots, labels and the two datasets
    lastTime,   \* Program.lastTime, in milliseconds
    tick,       \* the most recent Program.loop frame: its number, its dt, the value and
                \* the plant parameters it read
    velocity,   \* MotorDriverPIDSimulation.velocity
    heap,       \* the PID objects with stored gains that exist: address -> object
    sims        \* the simulations constructed with (target, args), each holding the
                \* address of its pid_controller            (src/unnamed/part_001:275)

ctlVars == <<pidc, spid>>
simVars == <<controls, value, chart, lastTime, tick, velocity, heap, sims>>
vars == <<impl, pidc, spid, pid, call, hist, ncalls, controls, value, chart, lastTime, tick,
          velocity, heap, sims>>

----------------------------------------------------------------------------
(* Exact rational arithmetic *)

Abs(x) == IF x < 0 THEN -x ELSE x

RECURSIVE GCD(_, _)
GCD(a, b) == IF b = 0 THEN a ELSE GCD(b, a % b)

\* n / d in lowest terms, d # 0
Rat(n, d) ==
    LET g == GCD(Abs(n), Abs(d))
        s == IF d < 0 THEN -1 ELSE 1
    IN  [n |-> (s * n) \div g, d |-> (s * d) \div g]

Num(n) == [n |-> n, d |-> 1]

\* common factors are divided out before multiplying, to keep the intermediate integers small
RAdd(a, b) ==
    LET g == GCD(a.d, b.d)
    IN  Rat(a.n * (b.d \div g) + b.n * (a.d \div g), (a.d \div g) * b.d)
RSub(a, b) ==
    LET g == GCD(a.d, b.d)
    IN  Rat(a.n * (b.d \div g) - b.n * (a.d \div g), (a.d \div g) * b.d)
RMul(a, b) ==
    LET g1 == GCD(Abs(a.n), b.d)
        g2 == GCD(Abs(b.n), a.d)
    IN  Rat((a.n \div g1) * (b.n \div g2), (a.d \div g2) * (b.d \div g1))
RDiv(a, b) == RMul(a, Rat(b.d, b.n))
RLt(a, b) ==
    LET g == GCD(a.d, b.d)
    IN  a.n * (b.d \div g) < b.n * (a.d \div g)
RLe(a, b) ==
    LET g == GCD(a.d, b.d)
    IN  a.n * (b.d \div g) <= b.n * (a.d \div g)
RMax(a, b) == IF RLt(a, b) THEN b ELSE a
RMin(a, b) == IF RLt(b, a) THEN b ELSE a

Zero == Num(0)
Null == [n |-> 0, d |-> 0]
Undefined == [n |-> 1, d |-> 0]

----------------------------------------------------------------------------
(* Bounds and the inputs the client draws from *)

MaxCalls == 3

Targets == {Num(0), Num(10)}
Measurements == {Num(0), Num(20)}
Dts == {Num(1), Rat(1, 2)}

\* gains: none, proportional only, integral only, all three (kd negative)
GainSets ==
    { [kp |-> Num(0), ki |-> Num(0), kd |-> Num(0)],
      [kp |-> Num(5), ki |-> Num(0), kd |-> Num(0)],
      [kp |-> Num(0), ki |-> Num(1), kd |-> Num(0)],
      [kp |-> Num(5), ki |-> Num(1), kd |-> Rat(-1, 2)] }

\* output bounds: max only, both, both with min above max
BoundSets ==
    { [min |-> Undefined, max |-> Num(10)],
      [min |-> Num(-10), max |-> Num(10)],
      [min |-> Num(20), max |-> Num(10)] }

NoBounds == [min |-> Undefined, max |-> Undefined]

\* every gain setting without bounds, the proportional gain alone with every bound setting,
\* no gains with two-sided bounds, the integral gain alone with an upper bound
GainBoundSets ==
    {[g |-> g, b |-> NoBounds] : g \in GainSets}
        \cup {[g |-> g, b |-> b] : g \in {h \in GainSets : h.kp = Num(5) /\ h.ki = Zero},
                                   b \in BoundSets}
        \cup {[g |-> g, b |-> b] : g \in {h \in GainSets : h.kp = Zero /\ h.ki = Zero},
                                   b \in {c \in BoundSets : c.min # Undefined}}
        \cup {[g |-> g, b |-> b] : g \in {h \in GainSets : h.kp = Zero /\ h.ki # Zero},
                                   b \in {c \in BoundSets : c.min = Undefined}}

Impls == {"PIDController", "PIDStored", "PID"}

----------------------------------------------------------------------------
(* Statements shared, character for character, by the three update methods *)

\* JavaScript  a || b : b when a is falsy (null or 0), a otherwise
JsOr(a, b) == IF a = Null \/ a = Zero THEN b ELSE a

\* let e = target - sensor_value
Error(target, sensor_value) == RSub(target, sensor_value)

\* the time step left out of the sum
Accumulate_no_dt(integral, e, dt) == RAdd(integral, e)

\* this.integral += e * dt
\* = instead of +=
Accumulate_overwrite(integral, e, dt) == RMul(e, dt)

Accumulate(integral, e, dt) == RAdd(integral, RMul(e, dt))

\* let ed = (this.last_error || 0 - e) / dt     ( || binds looser than - )
Derivative(last_error, e, dt) == RDiv(JsOr(last_error, RSub(Zero, e)), dt)

\* the last term taken from e instead of ed
Sum_e_for_ed(kp, ki, kd, e, ei, ed) == RAdd(RAdd(RMul(kp, e), RMul(ki, ei)), RMul(kd, e))

\* kp * e + ki * ei + kd * ed
\* the accumulator added without its gain
Sum_ki_dropped(kp, ki, kd, e, ei, ed) == RAdd(RAdd(RMul(kp, e), ei), RMul(kd, ed))

Sum(kp, ki, kd, e, ei, ed) == RAdd(RAdd(RMul(kp, e), RMul(ki, ei)), RMul(kd, ed))

\* the two bounds applied in the other order
Clamp_max_first(P, min, max) ==
    LET P1 == IF max # Undefined THEN RMin(P, max) ELSE P
    IN  IF min # Undefined THEN RMax(P1, min) ELSE P1

\* the upper bound never applied
Clamp_min_only(P, min, max) == IF min # Undefined THEN RMax(P, min) ELSE P

\* if (min !== undefined) P = Math.max(P, min); if (max !== undefined) P = Math.min(P, max)
Clamp(P, min, max) ==
    LET P1 == IF min # Undefined THEN RMax(P, min) ELSE P
    IN  IF max # Undefined THEN RMin(P1, max) ELSE P1

----------------------------------------------------------------------------
(* class PIDController *)

DEFAULT_ARGS == [target |-> Zero, kp |-> Zero, ki |-> Zero, kd |-> Zero]

PIDController_new(args) ==
    [target |-> args.target, kp |-> args.kp, ki |-> args.ki, kd |-> args.kd,
     integral |-> Zero, last_error |-> Null]

\* the object after the call (self), the value returned (ret) and the locals
PIDController_update(self, sensor_value, dt) ==
    LET e == Error(self.target, sensor_value)
        integral == Accumulate(self.integral, e, dt)
        ei == integral
        ed == Derivative(self.last_error, e, dt)
    IN  [self |-> [self EXCEPT !.integral = integral],
         ret |-> Sum(self.kp, self.ki, self.kd, e, ei, ed),
         e |-> e, ed |-> ed]

\* the accumulator left as it is
PIDController_reset_keeps_integral(self) == [self EXCEPT !.last_error = Null]

PIDController_reset(self) == [self EXCEPT !.integral = Zero, !.last_error = Null]

PIDController_set_args(self, args) ==
    [self EXCEPT !.target = args.target, !.kp = args.kp, !.ki = args.ki, !.kd = args.kd]

----------------------------------------------------------------------------
(* class PID, gains stored in the object *)

PIDStored_new(target, pid_vars) ==
    [target |-> target, pid_vars |-> pid_vars, integral |-> Zero, last_error |-> Null]

PIDStored_update(self, sensor_value, dt) ==
    LET e == Error(self.target, sensor_value)
        integral == Accumulate(self.integral, e, dt)
        ei == integral
        ed == Derivative(self.last_error, e, dt)
    IN  [self |-> [self EXCEPT !.integral = integral],
         ret |-> Sum(self.pid_vars.kp, self.pid_vars.ki, self.pid_vars.kd, e, ei, ed),
         e |-> e, ed |-> ed]

PIDStored_reset(self) == [self EXCEPT !.integral = Zero, !.last_error = Null]

\* the accumulator cleared as well
PIDStored_set_clears_integral(self, target, pid_vars) ==
    [self EXCEPT !.target = target, !.pid_vars = pid_vars, !.integral = Zero]

PIDStored_set(self, target, pid_vars) ==
    [self EXCEPT !.target = target, !.pid_vars = pid_vars]

DEFAULT_PID == PIDStored_new(Zero, [kp |-> Zero, ki |-> Zero, kd |-> Zero])

----------------------------------------------------------------------------
(* class PID, configuration passed to every update *)

PID_new == [integral |-> Zero, last_error |-> Null]

\* negative gains refused: nothing returned, nothing accumulated
PID_update_validating(self, sensor_value, pid_vars, dt) ==
    LET e == Error(pid_vars.target, sensor_value)
        integral == Accumulate(self.integral, e, dt)
        ed == Derivative(self.last_error, e, dt)
        P == Sum(pid_vars.kp, pid_vars.ki, pid_vars.kd, e, integral, ed)
    IN  IF RLt(pid_vars.kp, Zero) \/ RLt(pid_vars.ki, Zero) \/ RLt(pid_vars.kd, Zero)
        THEN [self |-> self, ret |-> Null, e |-> e, ed |-> ed]
        ELSE [self |-> [self EXCEPT !.integral = integral],
              ret |-> Clamp(P, pid_vars.min, pid_vars.max), e |-> e, ed |-> ed]

PID_update(self, sensor_value, pid_vars, dt) ==
    LET e == Error(pid_vars.target, sensor_value)
        integral == Accumulate(self.integral, e, dt)
        ei == integral
        ed == Derivative(self.last_error, e, dt)
        P == Sum(pid_vars.kp, pid_vars.ki, pid_vars.kd, e, ei, ed)
    IN  [self |-> [self EXCEPT !.integral = integral],
         ret |-> Clamp(P, pid_vars.min, pid_vars.max),
         e |-> e, ed |-> ed]

\* the accumulator left as it is
PID_reset_keeps_integral(self) == [self EXCEPT !.last_error = Null]

PID_reset(self) == [self EXCEPT !.integral = Zero, !.last_error = Null]

----------------------------------------------------------------------------
(* The record of the most recent controller operation *)

NoVars == [target |-> Zero, kp |-> Zero, ki |-> Zero, kd |-> Zero,
           min |-> Undefined, max |-> Undefined]

NoCall == [op |-> "none", sensor |-> Zero, dt |-> Zero, vars |-> NoVars,
           e |-> Zero, ed |-> Zero, ret |-> Zero, was |-> Zero, resets |-> 0,
           cfg |-> << >>]

\* an update call: its arguments, the configuration in force, the locals e and ed, the
\* result, and the accumulator as it was before the call
UpdateCall(sensor_value, pid_vars, dt, r, was) ==
    [op |-> "update", sensor |-> sensor_value, dt |-> dt, vars |-> pid_vars,
     e |-> r.e, ed |-> r.ed, ret |-> r.ret, was |-> was, resets |-> 0, cfg |-> << >>]

\* a set call, or a reset call, the n-th reset in a row: the accumulator and the stored
\* configuration as they were before the call
OtherCall(op, n, was, cfg) ==
    [NoCall EXCEPT !.op = op, !.resets = n, !.was = was, !.cfg = cfg]

\* a set call: the configuration handed in, the accumulator and the stored configuration
\* as they were before the call
SetCall(pid_vars, was, cfg) == [OtherCall("set", 0, was, cfg) EXCEPT !.vars = pid_vars]

\* what hist keeps of an update call: the target in force, the measurement, dt
Entry(target, sensor_value, dt) == [target |-> target, sensor |-> sensor_value, dt |-> dt]

----------------------------------------------------------------------------
(* class SliderElem, class ControlBar, class ScrollingChart *)

\* if (initial) this.value = initial; else this.value = (min + max) / 2
\* (initial is truthy unless it is null or 0)
SliderElem_new(min, max, step, initial) ==
    [min |-> min, max |-> max, step |-> step,
     value |-> JsOr(initial, RDiv(RAdd(min, max), Num(2)))]

SliderElem_get_value(self) == self.value

\* this.value = Math.max(Math.min(this.max, value), this.min)
SliderElem_set_value(self, v) == [self EXCEPT !.value = RMax(RMin(self.max, v), self.min)]

\* Map.set(label, control) on a map that has, or has not, the label
ControlBar_add_control(map, label, control) ==
    [l \in DOMAIN map \cup {label} |-> IF l = label THEN control ELSE map[l]]

ControlBar_get_control(map, label) == map[label]

\* Array.prototype.slice(-n): the last n elements; slice(-0) is slice(0), the whole array
SliceLast(seq, n) ==
    IF n = 0 \/ n >= Len(seq) THEN seq ELSE SubSeq(seq, Len(seq) - n + 1, Len(seq))

ScrollingChart_new(config) == [plots |-> config.plots, labels |-> <<>>, datasets |-> <<>>]

ScrollingChart_add_dataset(self, label) ==
    [self EXCEPT !.datasets = Append(@, [label |-> label, data |-> <<>>])]

\* the sample put in front of the series
ScrollingChart_add_data_in_front(self, dataset, v) ==
    [self EXCEPT !.datasets[dataset + 1].data = <<v>> \o @]

\* datasets[dataset].data.push(value), dataset counted from 0
ScrollingChart_add_data(self, dataset, v) ==
    [self EXCEPT !.datasets[dataset + 1].data = Append(@, v)]

ScrollingChart_add_label(self, label) == [self EXCEPT !.labels = Append(@, label)]

ScrollingChart_update(self) ==
    [self EXCEPT !.labels = SliceLast(@, self.plots),
                 !.datasets = [i \in DOMAIN self.datasets |->
                     [self.datasets[i] EXCEPT !.data = SliceLast(@, self.plots)]]]

----------------------------------------------------------------------------
(* class PIDSimulation, class RoomHeaterPIDSimulation *)

PIDSimulation_controls ==
    LET c0 == << >>
        c1 == ControlBar_add_control(c0, "KP", SliderElem_new(Num(-5), Num(5), Rat(1, 100), Rat(5, 2)))
        c2 == ControlBar_add_control(c1, "KI", SliderElem_new(Num(-5), Num(5), Rat(1, 100), Rat(5, 2)))
    IN  ControlBar_add_control(c2, "KD", SliderElem_new(Num(-5), Num(5), Rat(1, 100), Rat(-1, 2)))

RoomHeater_controls ==
    LET c3 == ControlBar_add_control(PIDSimulation_controls, "Target Temperature",
                  SliderElem_new(Num(-30), Num(30), Rat(1, 2), Num(15)))
        c4 == ControlBar_add_control(c3, "External Temperature",
                  SliderElem_new(Num(-89), Num(57), Num(1), Num(15)))
        c5 == ControlBar_add_control(c4, "Room Thermal Mass",
                  SliderElem_new(Num(1), Num(500), Num(1), Num(50)))
        c6 == ControlBar_add_control(c5, "Heat Conductivity Of Walls",
                  SliderElem_new(Num(0), Num(20), Rat(1, 10), Num(5)))
        c7 == ControlBar_add_control(c6, "Heat Loss",
                  SliderElem_new(Num(0), Num(50), Num(1), Num(0)))
        c8 == ControlBar_add_control(c7, "Heater Min Power",
                  SliderElem_new(Num(-200), Num(0), Num(1), Num(0)))
    IN  ControlBar_add_control(c8, "Heater Max Power",
                  SliderElem_new(Num(0), Num(200), Num(1), Num(200)))

RoomHeater_chart ==
    ScrollingChart_add_dataset(
        ScrollingChart_add_dataset(ScrollingChart_new([plots |-> 100]), "Room Temperature"),
        "Target Temperature")

\* the first argument of this.pid_controller.update( ... ) in RoomHeaterPIDSimulation.update
RoomHeater_sensor(target, value_) == RSub(target, value_)

\* the heater power left out of the heat balance
RoomHeater_step_no_Q(value_, Q, k, T_ext, H_loss, C, dt) ==
    RAdd(value_, RMul(RDiv(RSub(RSub(Zero, RMul(k, RSub(value_, T_ext))), H_loss), C), dt))

\* the temperature change not scaled by dt
RoomHeater_step_no_dt(value_, Q, k, T_ext, H_loss, C, dt) ==
    RAdd(value_, RDiv(RSub(RSub(Q, RMul(k, RSub(value_, T_ext))), H_loss), C))

\* delta_T_room = ((Q - k * (value - T_ext) - H_loss) / C) * dt;  value += delta_T_room
RoomHeater_step(value_, Q, k, T_ext, H_loss, C, dt) ==
    RAdd(value_, RMul(RDiv(RSub(RSub(Q, RMul(k, RSub(value_, T_ext))), H_loss), C), dt))

\* RoomHeaterPIDSimulation.update(dt): the fields after the call, and the controller call made
RoomHeater_update(controls_, pid_, value_, chart_, dt) ==
    LET get(label) == SliderElem_get_value(ControlBar_get_control(controls_, label))
        target == get("Target Temperature")
        pid_vars == [target |-> target, kp |-> get("KP"), ki |-> get("KI"), kd |-> get("KD"),
                     min |-> get("Heater Min Power"), max |-> get("Heater Max Power")]
        T_ext == get("External Temperature")
        C == get("Room Thermal Mass")
        k == get("Heat Conductivity Of Walls")
        H_loss == get("Heat Loss")
        sensor == RoomHeater_sensor(target, value_)
        r == PID_update(pid_, sensor, pid_vars, dt)
        Q == r.ret
        value2 == RoomHeater_step(value_, Q, k, T_ext, H_loss, C, dt)
        chart1 == ScrollingChart_add_label(chart_, "")
        chart2 == ScrollingChart_add_data(chart1, 0, value2)
        chart3 == ScrollingChart_add_data(chart2, 1, target)
    IN  [pid |-> r.self, value |-> value2, chart |-> chart3,
         call |-> UpdateCall(sensor, pid_vars, dt, r, pid_.integral),
         entry |-> Entry(target, sensor, dt),
         env |-> [T_ext |-> T_ext, C |-> C, k |-> k, H_loss |-> H_loss]]

\* RoomHeaterPIDSimulation.draw()
RoomHeater_draw(chart_) == ScrollingChart_update(chart_)

----------------------------------------------------------------------------
(* A client that constructs one controller and calls its methods in any order *)

ArgSets == {[target |-> t, kp |-> g.kp, ki |-> g.ki, kd |-> g.kd] : t \in Targets, g \in GainSets}
\* the configurations with bounds are drawn with the target 10 only
VarSets ==
    {v \in {[target |-> t, kp |-> c.g.kp, ki |-> c.g.ki, kd |-> c.g.kd,
              min |-> c.b.min, max |-> c.b.max] : t \in Targets, c \in GainBoundSets} :
        v.target = Num(10) \/ (v.min = Undefined /\ v.max = Undefined)}

NoEnv == [T_ext |-> Zero, C |-> Zero, k |-> Zero, H_loss |-> Zero]

NoTick == [n |-> 0, dt |-> Zero, before |-> Zero, env |-> NoEnv]

\* no simulation exists while a controller is driven directly
NoSim ==
    /\ controls = << >>
    /\ value = Zero
    /\ chart = ScrollingChart_new([plots |-> 0])
    /\ lastTime = 0
    /\ tick = NoTick
    /\ velocity = Zero
    /\ heap = << >>
    /\ sims = << >>

InitCtl ==
    /\ impl \in Impls
    /\ pidc \in {PIDController_new(a) :
                    a \in IF impl = "PIDController" THEN ArgSets ELSE {DEFAULT_ARGS}}
    /\ spid \in IF impl = "PIDStored"
                THEN {PIDStored_new(t, g) : t \in Targets, g \in GainSets}
                ELSE {DEFAULT_PID}
    /\ pid = PID_new
    /\ call = NoCall
    /\ hist = << >>
    /\ ncalls = 0
    /\ NoSim

\* the stored-configuration classes have no output bounds
StoredVars(target, kp, ki, kd) ==
    [target |-> target, kp |-> kp, ki |-> ki, kd |-> kd, min |-> Undefined, max |-> Undefined]

PIDControllerUpdate(m, dt) ==
    /\ impl = "PIDController" /\ ncalls < MaxCalls
    /\ LET r == PIDController_update(pidc, m, dt)
       IN  /\ pidc' = r.self
           /\ call' = UpdateCall(m, StoredVars(pidc.target, pidc.kp, pidc.ki, pidc.kd), dt, r,
                               pidc.integral)
           /\ hist' = Append(hist, Entry(pidc.target, m, dt))
    /\ ncalls' = ncalls + 1
    /\ UNCHANGED <<impl, spid, pid, simVars>>

PIDControllerReset ==
    /\ impl = "PIDController" /\ ncalls < MaxCalls
    /\ pidc' = PIDController_reset(pidc)
    /\ call' = OtherCall("reset", call.resets + 1, pidc.integral,
                          <<pidc.target, pidc.kp, pidc.ki, pidc.kd>>)
    /\ hist' = << >>
    /\ ncalls' = ncalls + 1
    /\ UNCHANGED <<impl, spid, pid, simVars>>

PIDControllerSetArgs(args) ==
    /\ impl = "PIDController" /\ ncalls < MaxCalls
    /\ pidc' = PIDController_set_args(pidc, args)
    /\ call' = SetCall(StoredVars(args.target, args.kp, args.ki, args.kd), pidc.integral,
                        <<pidc.target, pidc.kp, pidc.ki, pidc.kd>>)
    /\ ncalls' = ncalls + 1
    /\ UNCHANGED <<impl, spid, pid, hist, simVars>>

PIDStoredUpdate(m, dt) ==
    /\ impl = "PIDStored" /\ ncalls < MaxCalls
    /\ LET r == PIDStored_update(spid, m, dt)
           g == spid.pid_vars
       IN  /\ spid' = r.self
           /\ call' = UpdateCall(m, StoredVars(spid.target, g.kp, g.ki, g.kd), dt, r,
                               spid.integral)
           /\ hist' = Append(hist, Entry(spid.target, m, dt))
    /\ ncalls' = ncalls + 1
    /\ UNCHANGED <<impl, pidc, pid, simVars>>

PIDStoredReset ==
    /\ impl = "PIDStored" /\ ncalls < MaxCalls
    /\ spid' = PIDStored_reset(spid)
    /\ call' = OtherCall("reset", call.resets + 1, spid.integral,
                          <<spid.target, spid.pid_vars>>)
    /\ hist' = << >>
    /\ ncalls' = ncalls + 1
    /\ UNCHANGED <<impl, pidc, pid, simVars>>

PIDStoredSet(target, pid_vars) ==
    /\ impl = "PIDStored" /\ ncalls < MaxCalls
    /\ spid' = PIDStored_set(spid, target, pid_vars)
    /\ call' = SetCall(StoredVars(target, pid_vars.kp, pid_vars.ki, pid_vars.kd), spid.integral,
                        <<spid.target, spid.pid_vars>>)
    /\ ncalls' = ncalls + 1
    /\ UNCHANGED <<impl, pidc, pid, hist, simVars>>

PIDUpdate(m, pid_vars, dt) ==
    /\ impl = "PID" /\ ncalls < MaxCalls
    /\ LET r == PID_update(pid, m, pid_vars, dt)
       IN  /\ pid' = r.self
           /\ call' = UpdateCall(m, pid_vars, dt, r, pid.integral)
           /\ hist' = Append(hist, Entry(pid_vars.target, m, dt))
    /\ ncalls' = ncalls + 1
    /\ UNCHANGED <<impl, pidc, spid, simVars>>

PIDReset ==
    /\ impl = "PID" /\ ncalls < MaxCalls
    /\ pid' = PID_reset(pid)
    /\ call' = OtherCall("reset", call.resets + 1, pid.integral, << >>)
    /\ hist' = << >>
    /\ ncalls' = ncalls + 1
    /\ UNCHANGED <<impl, pidc, spid, simVars>>

NextCtl ==
    \/ \E m \in Measurements, dt \in Dts : PIDControllerUpdate(m, dt)
    \/ PIDControllerReset
    \/ \E args \in ArgSets : PIDControllerSetArgs(args)
    \/ \E m \in Measurements, dt \in Dts : PIDStoredUpdate(m, dt)
    \/ PIDStoredReset
    \/ \E t \in Targets, g \in GainSets : PIDStoredSet(t, g)
    \/ \E m \in Measurements, v \in VarSets, dt \in Dts : PIDUpdate(m, v, dt)
    \/ PIDReset

SpecCtl == InitCtl /\ [][NextCtl]_vars

----------------------------------------------------------------------------
(* class Program: the room-heater simulation driven by animation frames *)

MaxTicks == 2

\* milliseconds between two frames
FrameDeltas == {1000, 10000}

\* values typed into the sliders
SliderInputs ==
    [l \in DOMAIN RoomHeater_controls |->
        CASE l = "Target Temperature" -> {Num(25)}
          [] l = "KP" -> {Num(1)}
          [] l = "KI" -> {Num(0)}
          [] l = "KD" -> {Num(0)}
          [] l = "Heat Loss" -> {Num(0)}
          [] l = "Heater Min Power" -> {Num(0)}
          [] OTHER -> {}]

\* Program.start(): new RoomHeaterPIDSimulation(), lastTime = performance.now()
InitSim ==
    /\ impl = "Program"
    /\ pidc = PIDController_new(DEFAULT_ARGS)
    /\ spid = DEFAULT_PID
    /\ pid = PID_new
    /\ call = NoCall
    /\ hist = << >>
    /\ ncalls = 0
    /\ controls = RoomHeater_controls
    /\ value = Zero
    /\ chart = RoomHeater_chart
    /\ lastTime = 0
    /\ tick = NoTick
    /\ velocity = Zero
    /\ heap = << >>
    /\ sims = << >>

\* the input listener of a slider: updateAll(val) -> this.set_value(val)
SliderInput(label, val) ==
    /\ impl = "Program" /\ tick.n < MaxTicks
    /\ controls' = [controls EXCEPT ![label] = SliderElem_set_value(@, val)]
    /\ UNCHANGED <<impl, ctlVars, pid, call, hist, ncalls, value, chart, lastTime, tick,
                   velocity, heap, sims>>

\* Program.loop(now): dt = (now - lastTime) / 1000; sim.update(dt); sim.draw()
ProgramLoop(now) ==
    /\ impl = "Program" /\ tick.n < MaxTicks
    /\ LET dt == Rat(now - lastTime, 1000)
           r == RoomHeater_update(controls, pid, value, chart, dt)
       IN  /\ pid' = r.pid
           /\ value' = r.value
           /\ chart' = RoomHeater_draw(r.chart)
           /\ call' = r.call
           /\ hist' = Append(hist, r.entry)
           /\ tick' = [n |-> tick.n + 1, dt |-> dt, before |-> value, env |-> r.env]
    /\ lastTime' = now
    /\ ncalls' = ncalls + 1
    /\ UNCHANGED <<impl, ctlVars, controls, velocity, heap, sims>>

NextSim ==
    \/ \E l \in DOMAIN controls : \E v \in SliderInputs[l] : SliderInput(l, v)
    \/ \E d \in FrameDeltas : ProgramLoop(lastTime + d)

SpecSim == InitSim /\ [][NextSim]_vars

----------------------------------------------------------------------------
(* The controller a run is about, and what the claims compare against *)

Integral ==
    CASE impl = "PIDController" -> pidc.integral
      [] impl = "PIDStored" -> spid.integral
      [] OTHER -> pid.integral

LastError ==
    CASE impl = "PIDController" -> pidc.last_error
      [] impl = "PIDStored" -> spid.last_error
      [] OTHER -> pid.last_error

Unbounded(v) == v.min = Undefined /\ v.max = Undefined

\* target - m of the most recent update call
CallError == RSub(call.vars.target, call.sensor)

\* kp*error + ki*I + kd*derivative of the most recent update call, I the accumulator
\* after the call and derivative the derivative term the call computed
CallRaw ==
    RAdd(RAdd(RMul(call.vars.kp, CallError), RMul(call.vars.ki, Integral)),
         RMul(call.vars.kd, call.ed))

\* C1: an update without output bounds returns kp*(target - m) + ki*I + kd*derivative,
\* I being the accumulator after the call; with ki = kd = 0 it returns kp*(target - m).
C1_OutputFormula ==
    (call.op = "update" /\ Unbounded(call.vars)) =>
        /\ call.e = CallError
        /\ call.ret = CallRaw
        /\ (call.vars.ki = Zero /\ call.vars.kd = Zero) =>
               call.ret = RMul(call.vars.kp, CallError)

\* a second update with all three gains set, where the integral and derivative terms count
C1_Witness ==
    /\ call.op = "update" /\ Unbounded(call.vars) /\ Len(hist) = 2
    /\ call.vars.kp # Zero /\ call.vars.ki # Zero /\ call.vars.kd # Zero
    /\ Integral # RMul(CallError, call.dt)
    /\ call.ret # RMul(call.vars.kp, CallError)

\* the first update after a reset, with ki = kd = 0: 5 * (10 - 0) = 50
C1_WitnessAfterReset ==
    /\ impl = "PID" /\ ncalls = 3 /\ Len(hist) = 1 /\ call.op = "update"
    /\ call.vars.kp = Num(5) /\ call.vars.ki = Zero /\ call.vars.kd = Zero
    /\ call.vars.target = Num(10) /\ call.sensor = Zero /\ Unbounded(call.vars)
    /\ call.ret = Num(50)

\* target - m of the update before the most recent one, 0 when there is none since
\* construction or the last reset
PreviousError ==
    IF Len(hist) >= 2
    THEN RSub(hist[Len(hist) - 1].target, hist[Len(hist) - 1].sensor)
    ELSE Zero

\* C2: in every update the derivative term is (previous_error - error) / dt, where
\* previous_error is the error of the preceding update since construction or reset, else 0.
C2_DerivativeFromPreviousError ==
    call.op = "update" => call.ed = RDiv(RSub(PreviousError, CallError), call.dt)

\* what every update computes instead: (0 - error) / dt, whatever the history
C2_DerivativeAsComputed ==
    call.op = "update" => call.ed = RDiv(RSub(Zero, CallError), call.dt)

\* C3: immediately after any update, last_error is present and equals that call's
\* target - m.
C3_LastErrorStored ==
    call.op = "update" => (LastError # Null /\ LastError = CallError)

\* no operation ever assigns last_error a number
C3_LastErrorNeverStored == LastError = Null

\* max(., min) first when min is set, then min(., max) when max is set
Saturated(raw, min, max) ==
    LET a == IF min = Undefined \/ RLe(min, raw) THEN raw ELSE min
    IN  IF max = Undefined \/ RLe(a, max) THEN a ELSE max

\* C4: the value returned is the raw sum passed through max(., output_min) if output_min
\* is set and then through min(., output_max) if output_max is set; an unset bound is
\* never applied.
C4_OutputClamped ==
    call.op = "update" =>
        /\ call.ret = Saturated(CallRaw, call.vars.min, call.vars.max)
        /\ call.vars.max = Undefined => RLe(CallRaw, call.ret)
        /\ call.vars.min = Undefined => RLe(call.ret, CallRaw)

\* output_max = 10 alone, raw output 50: 10 is returned
C4_Witness ==
    /\ call.op = "update" /\ call.vars.min = Undefined /\ call.vars.max = Num(10)
    /\ CallRaw = Num(50) /\ call.ret = Num(10)

\* output_min = -10, raw output -50: -10 is returned
C4_WitnessMin ==
    /\ call.op = "update" /\ call.vars.min = Num(-10)
    /\ CallRaw = Num(-50) /\ call.ret = Num(-10)

\* output_max alone, raw output -50: returned unchanged
C4_WitnessOneSided ==
    /\ call.op = "update" /\ call.vars.min = Undefined /\ call.vars.max = Num(10)
    /\ CallRaw = Num(-50) /\ call.ret = Num(-50)

\* output_min = 20 above output_max = 10: the max bound, applied last, wins
C4_WitnessOrder ==
    /\ call.op = "update" /\ call.vars.min = Num(20) /\ call.vars.max = Num(10)
    /\ call.ret = Num(10)

\* the sum of (target_i - m_i) * dt_i over the first k updates since construction or reset
RECURSIVE SumErrorDt(_)
SumErrorDt(k) ==
    IF k = 0 THEN Zero
    ELSE RAdd(SumErrorDt(k - 1), RMul(RSub(hist[k].target, hist[k].sensor), hist[k].dt))

\* C8: the accumulator equals the sum of e_i * dt_i over the updates since construction
\* or the last reset; each update adds exactly error * dt; set leaves it alone.
C8_IntegralIsSum ==
    /\ Integral = SumErrorDt(Len(hist))
    /\ call.op = "update" => Integral = RAdd(call.was, RMul(CallError, call.dt))
    /\ call.op = "set" => Integral = call.was

\* three updates, not all with the same dt, and a non-zero sum
C8_Witness ==
    /\ Len(hist) = 3 /\ call.op = "update" /\ hist[1].dt # hist[2].dt
    /\ hist[2].target # hist[3].target
    /\ Integral # Zero /\ call.was # Zero

\* the configuration the controller object stores
Config ==
    CASE impl = "PIDController" -> <<pidc.target, pidc.kp, pidc.ki, pidc.kd>>
      [] impl = "PIDStored" -> <<spid.target, spid.pid_vars>>
      [] OTHER -> << >>

\* a freshly constructed controller given the first k updates since the last reset, under
\* the gains and bounds of the most recent call: the result of its k-th update
RECURSIVE FreshPIDController(_)
FreshPIDController(k) ==
    LET v == call.vars
        args == [target |-> IF k = 0 THEN Zero ELSE hist[k].target,
                 kp |-> v.kp, ki |-> v.ki, kd |-> v.kd]
    IN  IF k = 0 THEN [self |-> PIDController_new(args), ret |-> Zero]
        ELSE PIDController_update(
                 PIDController_set_args(FreshPIDController(k - 1).self, args),
                 hist[k].sensor, hist[k].dt)

RECURSIVE FreshPIDStored(_)
FreshPIDStored(k) ==
    LET v == call.vars
        g == [kp |-> v.kp, ki |-> v.ki, kd |-> v.kd]
    IN  IF k = 0 THEN [self |-> PIDStored_new(Zero, g), ret |-> Zero]
        ELSE PIDStored_update(
                 PIDStored_set(FreshPIDStored(k - 1).self, hist[k].target, g),
                 hist[k].sensor, hist[k].dt)

RECURSIVE FreshPID(_)
FreshPID(k) ==
    IF k = 0 THEN [self |-> PID_new, ret |-> Zero]
    ELSE PID_update(FreshPID(k - 1).self, hist[k].sensor,
                    [call.vars EXCEPT !.target = hist[k].target], hist[k].dt)

Fresh ==
    CASE impl = "PIDController" -> FreshPIDController(Len(hist))
      [] impl = "PIDStored" -> FreshPIDStored(Len(hist))
      [] OTHER -> FreshPID(Len(hist))

\* C9: reset, in any state, sets the accumulator to 0 and last_error to absent and leaves
\* the stored target and gains unchanged; every update after it returns what a freshly
\* constructed controller returns for the updates made since the reset.
C9_ResetAsFresh ==
    /\ call.op = "reset" =>
           (Integral = Zero /\ LastError = Null /\ Config = call.cfg)
    /\ call.op = "update" =>
           /\ call.ret = Fresh.ret
           /\ Integral = Fresh.self.integral
           /\ LastError = Fresh.self.last_error

\* a reset that cleared a non-zero accumulator
C9_Witness ==
    /\ call.op = "reset" /\ call.was # Zero /\ Integral = Zero /\ LastError = Null
    /\ impl = "PIDController" /\ pidc.kp # Zero /\ hist = << >>

\* an update right after such a reset, returning the fresh controller's output
C9_WitnessUpdate ==
    /\ impl = "PID" /\ ncalls = 3 /\ Len(hist) = 1 /\ call.op = "update"
    /\ call.vars.ki # Zero /\ call.ret # Zero /\ call.ret = RMul(CallError, call.dt)

\* C10: calling reset twice in a row leaves exactly the state one call leaves:
\* accumulator 0, last_error absent, everything else as it was.
C10_ResetIdempotent ==
    [][ (call.op = "reset" /\ call'.op = "reset" /\ ncalls' = ncalls + 1) =>
            /\ pidc' = pidc /\ spid' = spid /\ pid' = pid
            /\ Integral' = Zero /\ LastError' = Null ]_vars

\* an update and then two resets in a row
C10_Witness ==
    /\ impl = "PID" /\ ncalls = 3 /\ call.op = "reset" /\ call.resets = 2
    /\ Integral = Zero /\ LastError = Null

----------------------------------------------------------------------------
(* The simulation loop *)

\* C5: on every tick the measurement passed to the controller's update is the plant's
\* current value as it was before that tick's step, so the controller's error for the
\* tick is target minus that value.
C5_MeasurementIsPlantValue ==
    tick.n > 0 =>
        /\ call.sensor = tick.before
        /\ call.e = RSub(call.vars.target, tick.before)

\* what the room heater passes instead: target - value, which makes the error the value
C5_MeasurementAsPassed ==
    tick.n > 0 =>
        /\ call.sensor = RSub(call.vars.target, tick.before)
        /\ call.e = tick.before

\* the tick of the end-to-end scenario: T = 15, T_ext = 15, k = 5, C = 50, H_loss = 0,
\* target = 25, kp = 1, ki = kd = 0, output_min = 0, output_max = 200, dt = 1
Scenario ==
    /\ tick.n > 0 /\ tick.before = Num(15) /\ tick.dt = Num(1)
    /\ tick.env = [T_ext |-> Num(15), C |-> Num(50), k |-> Num(5), H_loss |-> Zero]
    /\ call.vars = [target |-> Num(25), kp |-> Num(1), ki |-> Zero, kd |-> Zero,
                    min |-> Zero, max |-> Num(200)]

\* C6: the scenario's tick produces controller error 10, heater power Q = 10 and the new
\* temperature 15.2.
C6_EndToEnd ==
    Scenario => (call.e = Num(10) /\ call.ret = Num(10) /\ value = Rat(152, 10))

\* what the scenario's tick produces: error 15, Q = 15, temperature 15.3
C6_EndToEndAsComputed ==
    Scenario => (call.e = Num(15) /\ call.ret = Num(15) /\ value = Rat(153, 10))

C6_ScenarioReached == Scenario

\* T + ((Q - k*(T - T_ext) - H_loss) / C) * dt
StepFrom(T, Q, env, dt) ==
    RAdd(T, RMul(RDiv(RSub(RSub(Q, RMul(env.k, RSub(T, env.T_ext))), env.H_loss), env.C), dt))

\* C7: within one tick the controller update comes first, then the model's update, each
\* exactly once, the model's update using the output that tick's controller update
\* returned; the state a tick reads is exactly the state the tick before wrote.
C7_TickOrder ==
    [][ /\ tick'.n = tick.n + 1 =>
               /\ tick'.before = value /\ call'.was = pid.integral
               /\ ncalls' = ncalls + 1 /\ Len(hist') = Len(hist) + 1
               /\ call'.op = "update" /\ call'.dt = tick'.dt
               /\ call'.sensor = RSub(call'.vars.target, value)
               /\ pid'.integral = RAdd(pid.integral, RMul(call'.e, tick'.dt))
               /\ value' = StepFrom(value, call'.ret, tick'.env, tick'.dt)
        /\ tick'.n = tick.n => (value' = value /\ pid' = pid /\ ncalls' = ncalls)
        /\ tick'.n \in {tick.n, tick.n + 1} /\ ncalls = tick.n ]_vars

\* a second tick whose controller output is not 0 and moves the temperature
C7_Witness ==
    /\ tick.n = 2 /\ ncalls = 2 /\ call.ret # Zero /\ tick.before # Zero
    /\ value # tick.before
    /\ value # StepFrom(tick.before, Zero, tick.env, tick.dt)

----------------------------------------------------------------------------
(* set / set_args *)

\* the stored configuration that holds target and gains v
ConfigOf(v) ==
    CASE impl = "PIDController" -> <<v.target, v.kp, v.ki, v.kd>>
      [] impl = "PIDStored" -> <<v.target, [kp |-> v.kp, ki |-> v.ki, kd |-> v.kd]>>
      [] OTHER -> << >>

\* C11: set / set_args stores the target and the gains it is given and leaves the
\* accumulator and last_error as they were; the update that follows it returns the new gains
\* applied to the accumulator the set found, advanced by that update's error * dt.
C11_SetKeepsState ==
    [][ /\ (call'.op = "set" /\ ncalls' = ncalls + 1) =>
            /\ Integral' = Integral /\ LastError' = LastError
            /\ Config' = ConfigOf(call'.vars)
        /\ (call.op = "set" /\ call'.op = "update") =>
            /\ call'.vars = call.vars
            /\ call'.ret = Sum(call.vars.kp, call.vars.ki, call.vars.kd, call'.e,
                               RAdd(call.was, RMul(call'.e, call'.dt)), call'.ed) ]_vars

\* a set that found a non-zero accumulator and changed the stored configuration
C11_Witness ==
    /\ impl = "PIDStored" /\ call.op = "set"
    /\ call.was # Zero /\ Integral = call.was
    /\ Config # call.cfg /\ Config = ConfigOf(call.vars) /\ call.vars.ki # Zero

----------------------------------------------------------------------------
(* Zero gains *)

ZeroGains(v) == v.kp = Zero /\ v.ki = Zero /\ v.kd = Zero

\* the bounds in force leave 0 as it is
AdmitsZero(v) ==
    /\ v.min = Undefined \/ RLe(v.min, Zero)
    /\ v.max = Undefined \/ RLe(Zero, v.max)

\* C12 as stated: with kp = ki = kd = 0 every update returns 0.
C12_ZeroGainsReturnZero ==
    (call.op = "update" /\ ZeroGains(call.vars)) => call.ret = Zero

\* C12: with kp = ki = kd = 0 an update returns 0 whenever no bound is set or the bounds
\* admit 0, whatever the measurement, dt and accumulator are; under bounds that exclude 0
\* it returns the bound that replaces 0: max if max is below 0 or below min, else min.
C12_ZeroGainsReturnClampedZero ==
    (call.op = "update" /\ ZeroGains(call.vars)) =>
        LET v == call.vars
        IN  IF AdmitsZero(v) THEN call.ret = Zero
            ELSE IF v.max # Undefined /\ (RLt(v.max, Zero) \/ (v.min # Undefined /\ RLt(v.max, v.min)))
                 THEN call.ret = v.max
                 ELSE call.ret = v.min

\* an update with zero gains, a non-zero error and a non-zero accumulator from earlier
\* updates, under bounds that admit 0
C12_Witness ==
    /\ call.op = "update" /\ ZeroGains(call.vars) /\ call.ret = Zero
    /\ call.was # Zero /\ Integral # Zero /\ CallError # Zero
    /\ call.vars.min = Num(-10) /\ call.vars.max = Num(10)

\* an update with zero gains under bounds that exclude 0
C12_WitnessExcluded ==
    /\ call.op = "update" /\ ZeroGains(call.vars) /\ ~AdmitsZero(call.vars)
    /\ call.ret = Num(10)

----------------------------------------------------------------------------
(* Constant error *)

\* this step is an update that repeats the update before it: the same positive error, the
\* same dt, the same gains and bounds
RepeatedUpdate ==
    /\ call.op = "update" /\ call'.op = "update" /\ ncalls' = ncalls + 1
    /\ call'.e = call.e /\ RLt(Zero, call.e)
    /\ call'.dt = call.dt
    /\ [call'.vars EXCEPT !.target = Zero] = [call.vars EXCEPT !.target = Zero]

IntegralOnly(v) == RLt(Zero, v.ki) /\ v.kp = Zero /\ v.kd = Zero

\* C13 as stated: under a repeated positive error and dt the accumulator strictly grows, and
\* with ki > 0 and kp = kd = 0 each output is strictly larger than the one before.
C13_OutputStrictlyGrows ==
    [][ RepeatedUpdate =>
            /\ RLt(Integral, Integral')
            /\ IntegralOnly(call.vars) => RLt(call.ret, call'.ret) ]_vars

\* C13: under a repeated positive error and dt the accumulator strictly grows on every
\* update; with ki > 0 and kp = kd = 0 the output is never smaller than the one before, and
\* strictly larger when no output bound is set.
C13_IntegralGrowsOutputFollows ==
    [][ RepeatedUpdate =>
            /\ RLt(Integral, Integral')
            /\ IntegralOnly(call.vars) =>
                   /\ RLe(call.ret, call'.ret)
                   /\ Unbounded(call.vars) => RLt(call.ret, call'.ret) ]_vars

\* two updates with the same positive error and dt, the integral gain alone, no bounds
C13_Witness ==
    /\ impl = "PIDController" /\ ncalls = 2 /\ Len(hist) = 2 /\ call.op = "update"
    /\ hist[1] = hist[2] /\ RLt(Zero, call.e)
    /\ IntegralOnly(call.vars)
    /\ Integral = RMul(Num(2), RMul(call.e, call.dt))
    /\ call.ret = RMul(call.vars.ki, Integral)

\* the same under an upper bound the second output is held at
C13_WitnessSaturated ==
    /\ impl = "PID" /\ ncalls = 2 /\ Len(hist) = 2 /\ call.op = "update"
    /\ hist[1] = hist[2] /\ RLt(Zero, call.e)
    /\ IntegralOnly(call.vars) /\ call.vars.max = Num(10)
    /\ RLt(call.ret, RMul(call.vars.ki, Integral))

----------------------------------------------------------------------------
(* class MotorDriverPIDSimulation *)

\* Math.floor
Floor(x) == x.n \div x.d

\* the quotient rounded towards zero, as the % operator does
Truncate(x) == IF x.n < 0 THEN -((-x.n) \div x.d) ELSE x.n \div x.d

\* the remainder with the sign of e
mod_truncated(e, n) == RSub(e, RMul(Num(Truncate(RDiv(e, n))), n))

mod(e, n) == RSub(e, RMul(Num(Floor(RDiv(e, n))), n))

\* let target = 0; let e = target - this.value; e = mod(e + 180, 360) - 180
MotorDriver_error(value_) ==
    LET target == Zero
        e == RSub(target, value_)
    IN  RSub(mod(RAdd(e, Num(180)), Num(360)), Num(180))

\* a configuration with a proportional gain
MotorDriver_vars_proportional ==
    [target |-> Zero, kp |-> Num(1), ki |-> Zero, kd |-> Zero, min |-> Undefined, max |-> Undefined]

\* the configuration handed to the controller on every update
MotorDriver_vars ==
    [target |-> Zero, kp |-> Zero, ki |-> Zero, kd |-> Zero, min |-> Undefined, max |-> Undefined]

\* the position increment scaled by dt
MotorDriver_step_scaled(value_, velocity_, T, dt) ==
    LET I == Num(20)
        a == RDiv(T, I)
        v == RAdd(velocity_, a)
    IN  [velocity |-> v, value |-> RAdd(value_, RMul(v, dt))]

\* let I = 20; let a = T / I; this.velocity += a; this.value += this.velocity
MotorDriver_step(value_, velocity_, T, dt) ==
    LET I == Num(20)
        a == RDiv(T, I)
        v == RAdd(velocity_, a)
    IN  [velocity |-> v, value |-> RAdd(value_, v)]

MotorDriver_chart == ScrollingChart_new([plots |-> 0])

MotorDriver_update(pid_, value_, velocity_, dt) ==
    LET e == MotorDriver_error(value_)
        r == PID_update(pid_, e, MotorDriver_vars, dt)
        T == r.ret
        st == MotorDriver_step(value_, velocity_, T, dt)
    IN  [pid |-> r.self, value |-> st.value, velocity |-> st.velocity,
         call |-> UpdateCall(e, MotorDriver_vars, dt, r, pid_.integral),
         entry |-> Entry(MotorDriver_vars.target, e, dt)]

MotorDriver_draw(chart_) == ScrollingChart_update(chart_)

\* positions and velocities a motor is found in
MotorPositions ==
    {Num(-550), Num(-190), Num(-180), Num(-10), Num(0), Rat(45, 2), Num(170), Num(180),
     Num(190), Num(540)}
MotorVelocities == {Num(0), Num(10), Num(-360)}

\* new MotorDriverPIDSimulation(), found at some position with some velocity
InitMotor ==
    /\ impl = "MotorDriver"
    /\ pidc = PIDController_new(DEFAULT_ARGS)
    /\ spid = DEFAULT_PID
    /\ pid = PID_new
    /\ call = NoCall
    /\ hist = << >>
    /\ ncalls = 0
    /\ controls = PIDSimulation_controls
    /\ value \in MotorPositions
    /\ chart = MotorDriver_chart
    /\ lastTime = 0
    /\ tick = NoTick
    /\ velocity \in MotorVelocities
    /\ heap = << >>
    /\ sims = << >>

\* one frame: sim.update(dt); sim.draw()
MotorDriverUpdate(dt) ==
    /\ impl = "MotorDriver" /\ tick.n < MaxTicks
    /\ LET r == MotorDriver_update(pid, value, velocity, dt)
       IN  /\ pid' = r.pid
           /\ value' = r.value
           /\ velocity' = r.velocity
           /\ call' = r.call
           /\ hist' = Append(hist, r.entry)
    /\ chart' = MotorDriver_draw(chart)
    /\ tick' = [n |-> tick.n + 1, dt |-> dt, before |-> value, env |-> NoEnv]
    /\ ncalls' = ncalls + 1
    /\ UNCHANGED <<impl, ctlVars, controls, lastTime, heap, sims>>

NextMotor == \E dt \in Dts : MotorDriverUpdate(dt)

SpecMotor == InitMotor /\ [][NextMotor]_vars

IsInteger(x) == x.d = 1

\* C14: the motor driver hands the controller w = ((e + 180) mod 360) - 180, e being
\* target - position with target 0: w lies in [-180, 180), e - w is a multiple of 360,
\* 190 wraps to -170 and -190 wraps to 170.
C14_ErrorWrapped ==
    (impl = "MotorDriver" /\ tick.n > 0) =>
        LET e == RSub(Zero, tick.before)
            w == call.sensor
        IN  /\ RLe(Num(-180), w) /\ RLt(w, Num(180))
            /\ IsInteger(RDiv(RSub(e, w), Num(360)))
            /\ e = Num(190) => w = Num(-170)
            /\ e = Num(-190) => w = Num(170)

\* an error of 190 handed on as -170
C14_Witness ==
    impl = "MotorDriver" /\ tick.n > 0 /\ tick.before = Num(-190) /\ call.sensor = Num(-170)

\* an error of -190 handed on as 170
C14_WitnessNegative ==
    impl = "MotorDriver" /\ tick.n > 0 /\ tick.before = Num(190) /\ call.sensor = Num(170)

\* C19: one motor driver step with control signal T adds T / 20 to the velocity and then
\* the updated velocity to the position; dt enters neither increment.
C19_StepIgnoresDt ==
    [][ (impl = "MotorDriver" /\ tick'.n = tick.n + 1) =>
            /\ velocity' = RAdd(velocity, RDiv(call'.ret, Num(20)))
            /\ value' = RAdd(value, velocity') ]_vars

\* a step with dt = 1/2 that moved the position by the whole velocity
C19_Witness ==
    /\ impl = "MotorDriver" /\ tick.n > 0 /\ tick.dt = Rat(1, 2)
    /\ velocity = Num(10) /\ value = RAdd(tick.before, Num(10))

----------------------------------------------------------------------------
(* The plant steps *)

\* C17: one room step with heater power Q and time step dt takes the temperature from T to
\* T + ((Q - k*(T - T_ext) - H_loss) / C) * dt, T being the temperature before the step;
\* the result is stored as it is, whatever its size.
C17_ThermalStep ==
    (impl = "Program" /\ tick.n > 0) =>
        LET T == tick.before
            Q == call.ret
            loss == RMul(tick.env.k, RSub(T, tick.env.T_ext))
            delta == RMul(RDiv(RSub(RSub(Q, loss), tick.env.H_loss), tick.env.C), tick.dt)
        IN  value = RAdd(T, delta)

\* a step with dt = 10 and a non-zero heater power that takes the temperature past the
\* target and past the range of the chart
C17_Witness ==
    /\ impl = "Program" /\ tick.n > 0 /\ tick.dt = Num(10)
    /\ call.ret # Zero /\ tick.before # Zero
    /\ RLt(call.vars.target, value) /\ RLt(Num(32), value)

----------------------------------------------------------------------------
(* What a tick publishes *)

\* the published series: the current value, the target
CurrentSeries == chart.datasets[1].data
TargetSeries == chart.datasets[2].data

----------------------------------------------------------------------------
(* The simulations constructed with (target, args): class PIDSimulation,             *)
(* class RoomHeaterPIDSimulation and class AirplaneStabilizerPIDSimulation of         *)
(* src/unnamed/part_001, holding a PID with stored gains.  Objects are referred to by *)
(* their address in heap; DEFAULT_PID, created when the module loads, is the first.   *)

MaxSimCalls == 3

\* the value is neither null nor 0, as && tests it
Truthy(x) == x # Null /\ x # Zero

\* heap before any simulation exists: DEFAULT_PID alone
ModuleHeap == <<DEFAULT_PID>>

\* public pid_controller: PID = DEFAULT_PID;
\* constructor(target, args) { if (target && args) this.pid_controller = new PID(0, args) }
PIDSimulation_new(heap_, target, args) ==
    IF Truthy(target) /\ args # Null
    THEN [heap |-> Append(heap_, PIDStored_new(Zero, args)), pid_controller |-> Len(heap_) + 1]
    ELSE [heap |-> heap_, pid_controller |-> Len(ModuleHeap)]

\* class RoomHeaterPIDSimulation: the field initialisers and the inherited constructor
OldRoomHeater_new(heap_, target, args) ==
    LET base == PIDSimulation_new(heap_, target, args)
    IN  [heap |-> base.heap,
         sim |-> [kind |-> "RoomHeater", pid_controller |-> base.pid_controller,
                  T |-> Zero, T_ext |-> Zero, C |-> Num(20), k |-> Rat(1, 100),
                  H_loss |-> Zero]]

\* RoomHeaterPIDSimulation.update(dt)
OldRoomHeater_update(heap_, self, dt) ==
    LET r == PIDStored_update(heap_[self.pid_controller], self.T, dt)
        Q == r.ret
        T2 == RoomHeater_step(self.T, Q, self.k, self.T_ext, self.H_loss, self.C, dt)
    IN  [heap |-> [heap_ EXCEPT ![self.pid_controller] = r.self],
         sim |-> [self EXCEPT !.T = T2], r |-> r, sensor |-> self.T]

\* class AirplaneStabilizerPIDSimulation: the field initialisers and the inherited constructor
AirplaneStabilizer_new(heap_, target, args) ==
    LET base == PIDSimulation_new(heap_, target, args)
    IN  [heap |-> base.heap,
         sim |-> [kind |-> "AirplaneStabilizer", pid_controller |-> base.pid_controller,
                  P |-> Zero, R_v |-> Rat(1, 5), D |-> Zero, I |-> Num(20),
                  M_0 |-> Rat(1, 5), M_s |-> Rat(1, 2)]]

\* the pitch advanced by the pitch rate of before the step
AirplaneStabilizer_step_old_rate(self, s, dt) ==
    LET R_accel == RMul(RDiv(Num(1), self.I), RAdd(RAdd(self.M_0, RMul(self.M_s, s)), self.D))
    IN  [self EXCEPT !.R_v = RAdd(self.R_v, RMul(R_accel, dt)),
                     !.P = RAdd(self.P, RMul(self.R_v, dt))]

\* R_accel = (1 / I) * (M_0 + M_s * s + D);  R_v += R_accel * dt;  P += R_v * dt
AirplaneStabilizer_step(self, s, dt) ==
    LET R_accel == RMul(RDiv(Num(1), self.I), RAdd(RAdd(self.M_0, RMul(self.M_s, s)), self.D))
        R_v == RAdd(self.R_v, RMul(R_accel, dt))
    IN  [self EXCEPT !.R_v = R_v, !.P = RAdd(self.P, RMul(R_v, dt))]

\* AirplaneStabilizerPIDSimulation.update(dt)
AirplaneStabilizer_update(heap_, self, dt) ==
    LET r == PIDStored_update(heap_[self.pid_controller], self.P, dt)
        s == r.ret
    IN  [heap |-> [heap_ EXCEPT ![self.pid_controller] = r.self],
         sim |-> AirplaneStabilizer_step(self, s, dt), r |-> r, sensor |-> self.P]

Simulation_update(heap_, self, dt) ==
    IF self.kind = "RoomHeater" THEN OldRoomHeater_update(heap_, self, dt)
    ELSE AirplaneStabilizer_update(heap_, self, dt)

\* what the two simulations are constructed with: no target, 0, 25; no args, gains
CtorTargets == {Null, Zero, Num(25)}
CtorArgs == {Null, [kp |-> Num(5), ki |-> Num(1), kd |-> Rat(-1, 2)]}

\* what set is called with
SetTargets == {Num(10)}
SetArgs == {[kp |-> Num(1), ki |-> Num(0), kd |-> Num(0)]}

\* the most recent operation on a simulation: which simulation, and for an update its
\* number, its dt and the measurement it read
SimTick(n, dt, before, i) == [n |-> n, dt |-> dt, before |-> before, env |-> NoEnv, sim |-> i]

\* the module is loaded, then a room heater and an airplane stabilizer are constructed
InitSims ==
    /\ impl = "Simulations"
    /\ pidc = PIDController_new(DEFAULT_ARGS)
    /\ spid = DEFAULT_PID
    /\ pid = PID_new
    /\ hist = << >>
    /\ ncalls = 0
    /\ controls = << >>
    /\ value = Zero
    /\ chart = ScrollingChart_new([plots |-> 0])
    /\ lastTime = 0
    /\ tick = SimTick(0, Zero, Zero, 0)
    /\ velocity = Zero
    /\ \E t1 \in CtorTargets, a1 \in CtorArgs, t2 \in CtorTargets, a2 \in CtorArgs :
           LET s1 == OldRoomHeater_new(ModuleHeap, t1, a1)
               s2 == AirplaneStabilizer_new(s1.heap, t2, a2)
           IN  /\ heap = s2.heap
               /\ sims = <<s1.sim, s2.sim>>
               /\ call = [NoCall EXCEPT !.op = "new",
                                        !.cfg = <<[target |-> t1, args |-> a1],
                                                  [target |-> t2, args |-> a2]>>]

\* sims[i].update(dt)
SimulationUpdate(i, dt) ==
    /\ impl = "Simulations" /\ ncalls < MaxSimCalls /\ tick.n < MaxTicks
    /\ LET c == heap[sims[i].pid_controller]
           r == Simulation_update(heap, sims[i], dt)
       IN  /\ heap' = r.heap
           /\ sims' = [sims EXCEPT ![i] = r.sim]
           /\ call' = UpdateCall(r.sensor,
                                 StoredVars(c.target, c.pid_vars.kp, c.pid_vars.ki, c.pid_vars.kd),
                                 dt, r.r, c.integral)
           /\ tick' = SimTick(tick.n + 1, dt, r.sensor, i)
    /\ ncalls' = ncalls + 1
    /\ UNCHANGED <<impl, ctlVars, pid, hist, controls, value, chart, lastTime, velocity>>

\* sims[i].pid_controller.set(target, pid_vars)
SimulationSet(i, target, pid_vars) ==
    /\ impl = "Simulations" /\ ncalls < MaxSimCalls
    /\ LET c == heap[sims[i].pid_controller]
       IN  /\ heap' = [heap EXCEPT ![sims[i].pid_controller] = PIDStored_set(c, target, pid_vars)]
           /\ call' = SetCall(StoredVars(target, pid_vars.kp, pid_vars.ki, pid_vars.kd),
                              c.integral, <<c.target, c.pid_vars>>)
    /\ tick' = [tick EXCEPT !.sim = i]
    /\ ncalls' = ncalls + 1
    /\ UNCHANGED <<impl, ctlVars, pid, hist, controls, value, chart, lastTime, velocity, sims>>

\* sims[i].pid_controller.reset()
SimulationReset(i) ==
    /\ impl = "Simulations" /\ ncalls < MaxSimCalls
    /\ LET c == heap[sims[i].pid_controller]
       IN  /\ heap' = [heap EXCEPT ![sims[i].pid_controller] = PIDStored_reset(c)]
           /\ call' = OtherCall("reset", call.resets + 1, c.integral, <<c.target, c.pid_vars>>)
    /\ tick' = [tick EXCEPT !.sim = i]
    /\ ncalls' = ncalls + 1
    /\ UNCHANGED <<impl, ctlVars, pid, hist, controls, value, chart, lastTime, velocity, sims>>

NextSims ==
    \/ \E i \in DOMAIN sims, dt \in Dts : SimulationUpdate(i, dt)
    \/ \E i \in DOMAIN sims, t \in SetTargets, g \in SetArgs : SimulationSet(i, t, g)
    \/ \E i \in DOMAIN sims : SimulationReset(i)

SpecSims == InitSims /\ [][NextSims]_vars

\* the controller object simulation i holds
ControllerOf(i) == heap[sims[i].pid_controller]

\* C15: an update, a set or a reset on one simulation's controller leaves the controller
\* of every other simulation as it was: target, gains, accumulator and last_error.
C15_ControllersNotShared ==
    [][ \A i, j \in DOMAIN sims :
            (i # j /\ ncalls' = ncalls + 1 /\ tick'.sim = i) =>
                heap'[sims'[j].pid_controller] = heap[sims[j].pid_controller] ]_vars

\* what the code does: two simulations hold the same controller exactly when both hold
\* DEFAULT_PID, and then an operation on one shows in the other
C15_SharedDefault ==
    [][ \A i, j \in DOMAIN sims :
            (i # j /\ ncalls' = ncalls + 1 /\ tick'.sim = i) =>
                /\ (sims[i].pid_controller = sims[j].pid_controller)
                       <=> (sims[i].pid_controller = Len(ModuleHeap)
                            /\ sims[j].pid_controller = Len(ModuleHeap))
                /\ sims[i].pid_controller # sims[j].pid_controller =>
                       heap'[sims'[j].pid_controller] = heap[sims[j].pid_controller]
                /\ sims[i].pid_controller = sims[j].pid_controller =>
                       heap'[sims'[j].pid_controller] = heap'[sims'[i].pid_controller] ]_vars


\* the gains DEFAULT_PID is created with
NoGains == [kp |-> Zero, ki |-> Zero, kd |-> Zero]

\* C16: a simulation constructed with target t and gains {kp, ki, kd} has, before its first
\* tick, a controller with target t, the given gains, accumulator 0 and no last_error.
C16_ConstructedAsGiven ==
    call.op = "new" =>
        \A i \in DOMAIN sims :
            LET given == call.cfg[i]
                c == ControllerOf(i)
            IN  (given.target # Null /\ given.args # Null) =>
                    /\ c.target = given.target /\ c.pid_vars = given.args
                    /\ c.integral = Zero /\ c.last_error = Null

\* what the constructor does: the controller's target is 0 whatever target is given; the
\* gains are the given ones only if the target given is not 0, else the simulation holds
\* DEFAULT_PID and its zero gains
C16_ConstructedAsComputed ==
    call.op = "new" =>
        \A i \in DOMAIN sims :
            LET given == call.cfg[i]
                c == ControllerOf(i)
            IN  /\ c.target = Zero /\ c.integral = Zero /\ c.last_error = Null
                /\ IF Truthy(given.target) /\ given.args # Null
                   THEN c.pid_vars = given.args /\ sims[i].pid_controller # Len(ModuleHeap)
                   ELSE c.pid_vars = NoGains /\ sims[i].pid_controller = Len(ModuleHeap)

\* C18: one airplane step with control signal s and time step dt computes
\* a = (M_0 + M_s*s + D) / I, sets the pitch rate to R_v + a*dt and then the pitch to
\* P + (R_v + a*dt)*dt, the pitch rate it has just stored.
C18_PitchStep ==
    [][ \A i \in DOMAIN sims :
            (sims[i].kind = "AirplaneStabilizer" /\ tick'.sim = i /\ tick'.n = tick.n + 1) =>
                LET m == sims[i]
                    s == call'.ret
                    dt == call'.dt
                    a == RDiv(RAdd(RAdd(m.M_0, RMul(m.M_s, s)), m.D), m.I)
                    rate == RAdd(m.R_v, RMul(a, dt))
                IN  /\ call'.op = "update" /\ call'.sensor = m.P
                    /\ sims'[i].R_v = rate
                    /\ sims'[i].P = RAdd(m.P, RMul(rate, dt)) ]_vars

\* an airplane step with dt = 1/2 and a non-zero control signal, from a non-zero pitch
C18_Witness ==
    /\ impl = "Simulations" /\ tick.sim = 2 /\ call.op = "update"
    /\ call.dt = Rat(1, 2) /\ call.ret # Zero /\ tick.before # Zero
    /\ sims[2].P # tick.before /\ sims[2].R_v # Rat(1, 5)


----------------------------------------------------------------------------
(* No failure path *)

\* a finite number, neither null nor undefined
IsNumber(x) == x.d > 0

\* some gain of the configuration is negative
NegativeGain(v) == RLt(v.kp, Zero) \/ RLt(v.ki, Zero) \/ RLt(v.kd, Zero)

\* what update(m, dt) does to the object as it is now: the accumulator it leaves and the
\* value it returns are numbers, the accumulator has moved by (target - m) * dt
UpdateAccepts(m, dt) ==
    LET Done(r, target, was) ==
            /\ IsNumber(r.ret) /\ IsNumber(r.self.integral)
            /\ r.self.integral = RAdd(was, RMul(RSub(target, m), dt))
    IN  CASE impl = "PIDController" ->
                 Done(PIDController_update(pidc, m, dt), pidc.target, pidc.integral)
          [] impl = "PIDStored" ->
                 Done(PIDStored_update(spid, m, dt), spid.target, spid.integral)
          [] OTHER ->
                 \A v \in VarSets : Done(PID_update(pid, m, v, dt), v.target, pid.integral)

\* C21: in every state a controller is called in, update accepts every target, gains, bounds,
\* measurement and dt > 0: it returns a number and adds error * dt to the accumulator; and
\* every update made has done so.
C21_UpdateNeverFails ==
    /\ ncalls < MaxCalls => \A m \in Measurements, dt \in Dts : UpdateAccepts(m, dt)
    /\ call.op = "update" =>
           /\ IsNumber(call.ret)
           /\ IsNumber(Integral)
           /\ Integral = RAdd(call.was, RMul(CallError, call.dt))

\* an update with a negative gain that returned a number and moved the accumulator
C21_Witness ==
    /\ impl = "PID" /\ call.op = "update" /\ NegativeGain(call.vars)
    /\ IsNumber(call.ret) /\ call.ret # Zero /\ Integral # call.was

\* an update under bounds with min above max that did the same
C21_WitnessBounds ==
    /\ impl = "PID" /\ call.op = "update"
    /\ call.vars.min = Num(20) /\ call.vars.max = Num(10)
    /\ IsNumber(call.ret) /\ Integral # call.was


----------------------------------------------------------------------------
(* The room heater under changing power limits *)

\* values typed into the sliders: a negative gain, power limits inside and outside the
\* ranges of their sliders
PowerInputs ==
    [l \in DOMAIN RoomHeater_controls |->
        CASE l = "KP" -> {Num(-5)}
          [] l = "Heater Min Power" -> {Num(0), Num(-300)}
          [] l = "Heater Max Power" -> {Num(1), Num(300)}
          [] OTHER -> {}]

NextPower ==
    \/ \E l \in DOMAIN controls : \E v \in PowerInputs[l] : SliderInput(l, v)
    \/ \E d \in FrameDeltas : ProgramLoop(lastTime + d)

SpecPower == InitSim /\ [][NextPower]_vars

C22_WitnessMin ==
    /\ impl = "Program" /\ tick.n > 0 /\ call.vars.min = Zero
    /\ RLt(CallRaw, Zero) /\ call.ret = Zero

\* limits typed in beyond the ranges of their sliders are held at -200 and 200
C22_WitnessRange ==
    /\ impl = "Program" /\ tick.n > 0
    /\ call.vars.min = Num(-200) /\ call.vars.max = Num(200)


----------------------------------------------------------------------------
(* The motor driver at rest *)

AtRest == value = Zero /\ velocity = Zero

\* C23: every tick of the motor driver, whatever its dt, gets the control signal 0 from
\* the controller and leaves the velocity as it was; a motor at position 0 with velocity
\* 0, as constructed, is at position 0 with velocity 0 after the tick.
C23_MotorStaysAtRest ==
    [][ (impl = "MotorDriver" /\ tick'.n = tick.n + 1) =>
            /\ call'.ret = Zero
            /\ velocity' = velocity
            /\ AtRest => AtRest' ]_vars

\* two ticks, the second with dt = 1/2, after which the motor is still at rest
C23_Witness ==
    /\ impl = "MotorDriver" /\ tick.n >= 2 /\ tick.dt = Rat(1, 2)
    /\ tick.before = Zero /\ AtRest /\ call.ret = Zero


----------------------------------------------------------------------------
(* The three controller classes driven side by side *)

MaxLockstep == 3

\* the configurations of a tick: all three gains with either target, the proportional
\* gain alone with the target 10
LockstepArgs ==
    {a \in ArgSets : a.kd # Zero \/ (a.target = Num(10) /\ a.kp # Zero /\ a.ki = Zero)}

\* what hist keeps of a side-by-side call: the operation, its arguments and what each of
\* the three classes returned
LockstepEntry(op, args, sensor_value, dt, out) ==
    [op |-> op, args |-> args, sensor |-> sensor_value, dt |-> dt, out |-> out]

NoOut == [PIDController |-> Zero, PIDStored |-> Zero, PID |-> Zero]

\* one object of each class, as constructed
InitLockstep ==
    /\ impl = "Lockstep"
    /\ pidc = PIDController_new(DEFAULT_ARGS)
    /\ spid = DEFAULT_PID
    /\ pid = PID_new
    /\ call = NoCall
    /\ hist = << >>
    /\ ncalls = 0
    /\ NoSim

\* c.set_args(args); c.update(m, dt)  |  s.set(target, gains); s.update(m, dt)  |
\* p.update(m, {...args, min: undefined, max: undefined}, dt)
LockstepTick(args, m, dt) ==
    /\ impl = "Lockstep" /\ ncalls < MaxLockstep
    /\ LET pid_vars == StoredVars(args.target, args.kp, args.ki, args.kd)
           c == PIDController_update(PIDController_set_args(pidc, args), m, dt)
           s == PIDStored_update(
                    PIDStored_set(spid, args.target,
                                  [kp |-> args.kp, ki |-> args.ki, kd |-> args.kd]), m, dt)
           p == PID_update(pid, m, pid_vars, dt)
       IN  /\ pidc' = c.self
           /\ spid' = s.self
           /\ pid' = p.self
           /\ call' = UpdateCall(m, pid_vars, dt, p, pid.integral)
           /\ hist' = Append(hist, LockstepEntry("update", args, m, dt,
                                   [PIDController |-> c.ret, PIDStored |-> s.ret, PID |-> p.ret]))
    /\ ncalls' = ncalls + 1
    /\ UNCHANGED <<impl, simVars>>

\* c.reset(); s.reset(); p.reset()
LockstepReset ==
    /\ impl = "Lockstep" /\ ncalls < MaxLockstep
    /\ pidc' = PIDController_reset(pidc)
    /\ spid' = PIDStored_reset(spid)
    /\ pid' = PID_reset(pid)
    /\ call' = OtherCall("reset", call.resets + 1, pid.integral, << >>)
    /\ hist' = Append(hist, LockstepEntry("reset", DEFAULT_ARGS, Zero, Zero, NoOut))
    /\ ncalls' = ncalls + 1
    /\ UNCHANGED <<impl, simVars>>

NextLockstep ==
    \/ \E args \in LockstepArgs, m \in Measurements, dt \in Dts : LockstepTick(args, m, dt)
    \/ LockstepReset

SpecLockstep == InitLockstep /\ [][NextLockstep]_vars

\* C24: driven by the same ticks (target, kp, ki, kd, measurement, dt) and the same resets,
\* with no output bounds, PIDController, the PID with stored gains and the PID configured
\* per call returned the same output on every tick, and hold the same accumulator and the
\* same last_error.
C24_ClassesEquivalent ==
    impl = "Lockstep" =>
        /\ \A i \in DOMAIN hist :
              /\ hist[i].out.PIDController = hist[i].out.PID
              /\ hist[i].out.PIDStored = hist[i].out.PID
        /\ pidc.integral = pid.integral /\ spid.integral = pid.integral
        /\ pidc.last_error = pid.last_error /\ spid.last_error = pid.last_error

\* a tick, a reset and a tick with another configuration: both ticks returned something,
\* something is accumulated
C24_Witness ==
    /\ impl = "Lockstep" /\ Len(hist) = 3
    /\ hist[1].op = "update" /\ hist[2].op = "reset" /\ hist[3].op = "update"
    /\ hist[1].args # hist[3].args
    /\ hist[1].out.PID # Zero /\ hist[3].out.PID # Zero /\ hist[1].out.PID # hist[3].out.PID
    /\ pid.integral # Zero

\* three ticks in a row, the configuration changed before each, the outputs all different
C24_WitnessTicks ==
    /\ impl = "Lockstep" /\ Len(hist) = 3
    /\ \A i \in 1..3 : hist[i].op = "update"
    /\ hist[1].args # hist[2].args /\ hist[2].args # hist[3].args
    /\ hist[1].out.PID # hist[2].out.PID /\ hist[2].out.PID # hist[3].out.PID
    /\ hist[1].dt # hist[2].dt


----------------------------------------------------------------------------
(* A scrolling chart fed and redrawn by its owner *)

\* the longest series an owner lets build up before it redraws
MaxSeries == 3

\* the configured numbers of points: 0 as in the motor driver's chart, and two small ones
ChartPlots == {0, 1, 2}
ChartLabels == {"a", "b"}
ChartData == {Num(1), Num(2)}

ChartCall(op) == [NoCall EXCEPT !.op = op]

\* new ScrollingChart(id, config) with one dataset
InitChart ==
    /\ impl = "ScrollingChart"
    /\ pidc = PIDController_new(DEFAULT_ARGS)
    /\ spid = DEFAULT_PID
    /\ pid = PID_new
    /\ call = NoCall
    /\ hist = << >>
    /\ ncalls = 0
    /\ controls = << >>
    /\ value = Zero
    /\ chart \in {ScrollingChart_add_dataset(ScrollingChart_new([plots |-> p]), "Current") :
                    p \in ChartPlots}
    /\ lastTime = 0
    /\ tick = NoTick
    /\ velocity = Zero
    /\ heap = << >>
    /\ sims = << >>

ChartAddLabel(label) ==
    /\ impl = "ScrollingChart" /\ Len(chart.labels) < MaxSeries
    /\ chart' = ScrollingChart_add_label(chart, label)
    /\ call' = ChartCall("add_label")
    /\ UNCHANGED <<impl, pidc, spid, pid, hist, ncalls, controls, value, lastTime, tick,
                   velocity, heap, sims>>

ChartAddData(v) ==
    /\ impl = "ScrollingChart" /\ Len(chart.datasets[1].data) < MaxSeries
    /\ chart' = ScrollingChart_add_data(chart, 0, v)
    /\ call' = ChartCall("add_data")
    /\ UNCHANGED <<impl, pidc, spid, pid, hist, ncalls, controls, value, lastTime, tick,
                   velocity, heap, sims>>

ChartUpdate ==
    /\ impl = "ScrollingChart"
    /\ chart' = ScrollingChart_update(chart)
    /\ call' = ChartCall("chart.update")
    /\ UNCHANGED <<impl, pidc, spid, pid, hist, ncalls, controls, value, lastTime, tick,
                   velocity, heap, sims>>

NextChart ==
    \/ \E label \in ChartLabels : ChartAddLabel(label)
    \/ \E v \in ChartData : ChartAddData(v)
    \/ ChartUpdate

SpecChart == InitChart /\ [][NextChart]_vars

\* the last Len(kept) elements of seq are kept
MostRecent(kept, seq) ==
    /\ Len(kept) <= Len(seq)
    /\ kept = SubSeq(seq, Len(seq) - Len(kept) + 1, Len(seq))

\* C25: after every update() of a scrolling chart the labels and every dataset hold at most
\* `plots` entries, the most recently added ones, whatever the configured plots, 0 included.
C25_UpdateKeepsAtMostPlots ==
    [][ (impl = "ScrollingChart" /\ call'.op = "chart.update") =>
            /\ Len(chart'.labels) <= chart.plots
            /\ MostRecent(chart'.labels, chart.labels)
            /\ \A i \in DOMAIN chart.datasets :
                  /\ Len(chart'.datasets[i].data) <= chart.plots
                  /\ MostRecent(chart'.datasets[i].data, chart.datasets[i].data) ]_vars

\* what update() does: with plots > 0 the last `plots` entries are kept, with plots = 0
\* (slice(-0) is slice(0)) nothing is dropped
C25_UpdateAsComputed ==
    [][ (impl = "ScrollingChart" /\ call'.op = "chart.update") =>
            LET Kept(seq) == IF chart.plots = 0 \/ Len(seq) <= chart.plots
                             THEN seq
                             ELSE SubSeq(seq, Len(seq) - chart.plots + 1, Len(seq))
            IN  /\ chart'.labels = Kept(chart.labels)
                /\ \A i \in DOMAIN chart.datasets :
                      chart'.datasets[i].data = Kept(chart.datasets[i].data) ]_vars

\* a chart configured with plots = 0 that holds a label and a sample after update()
C25_WitnessZero ==
    /\ impl = "ScrollingChart" /\ call.op = "chart.update" /\ chart.plots = 0
    /\ Len(chart.labels) > 0 /\ Len(chart.datasets[1].data) > 0


----------------------------------------------------------------------------
(* A slider from its construction on *)

\* the number of set_value calls followed
MaxSets == 2

\* the sliders constructed in simulations.ts: label, min, max, step, initial
SliderCtors ==
    { <<"KP", Num(-5), Num(5), Rat(1, 100), Rat(5, 2)>>,
      <<"KD", Num(-5), Num(5), Rat(1, 100), Rat(-1, 2)>>,
      <<"Target Temperature", Num(-30), Num(30), Rat(1, 2), Num(15)>>,
      <<"External Temperature", Num(-89), Num(57), Num(1), Num(15)>>,
      <<"Room Thermal Mass", Num(1), Num(500), Num(1), Num(50)>>,
      <<"Heat Conductivity Of Walls", Num(0), Num(20), Rat(1, 10), Num(5)>>,
      <<"Heat Loss", Num(0), Num(50), Num(1), Num(0)>>,
      <<"Heater Min Power", Num(-200), Num(0), Num(1), Num(0)>>,
      <<"Heater Max Power", Num(0), Num(200), Num(1), Num(200)>> }

\* each of them also constructed with no initial value, and with the initial value 0
SliderInitials(c) == {c[5], Null, Zero}

\* values handed to set_value
SetValues == {Num(-300), Num(-1), Num(0), Num(20), Num(300)}

\* what hist keeps of a slider call
SliderCall(op, v) == [op |-> op, v |-> v]

\* the one control of the state
TheSlider == ControlBar_get_control(controls, CHOOSE l \in DOMAIN controls : TRUE)

\* new SliderElem(min, max, step, initial)
InitSlider ==
    /\ impl = "SliderElem"
    /\ pidc = PIDController_new(DEFAULT_ARGS)
    /\ spid = DEFAULT_PID
    /\ pid = PID_new
    /\ call = NoCall
    /\ ncalls = 0
    /\ \E c \in SliderCtors : \E initial \in SliderInitials(c) :
          /\ controls = ControlBar_add_control(<< >>, c[1],
                            SliderElem_new(c[2], c[3], c[4], initial))
          /\ hist = <<SliderCall("new", initial)>>
    /\ value = Zero
    /\ chart = ScrollingChart_new([plots |-> 0])
    /\ lastTime = 0
    /\ tick = NoTick
    /\ velocity = Zero
    /\ heap = << >>
    /\ sims = << >>

SliderSetValue(v) ==
    /\ impl = "SliderElem" /\ ncalls < MaxSets
    /\ controls' = [l \in DOMAIN controls |-> SliderElem_set_value(controls[l], v)]
    /\ hist' = Append(hist, SliderCall("set_value", v))
    /\ ncalls' = ncalls + 1
    /\ UNCHANGED <<impl, pidc, spid, pid, call, value, chart, lastTime, tick, velocity,
                   heap, sims>>

NextSlider == \E v \in SetValues : SliderSetValue(v)

SpecSlider == InitSlider /\ [][NextSlider]_vars

Midpoint(self) == RDiv(RAdd(self.min, self.max), Num(2))

\* C26: until set_value is called, a slider constructed with an initial value v returns v
\* from get_value(), v = 0 included, and one constructed with no initial value returns the
\* midpoint (min + max) / 2; 'Heat Loss' and 'Heater Min Power' therefore start at 0.
C26_InitialValueKept ==
    (impl = "SliderElem" /\ Len(hist) = 1) =>
        LET initial == hist[1].v
        IN  SliderElem_get_value(TheSlider) =
                IF initial = Null THEN Midpoint(TheSlider) ELSE initial

\* what the constructor does: the initial value if it is truthy, the midpoint if it is null
\* or 0
C26_InitialAsComputed ==
    (impl = "SliderElem" /\ Len(hist) = 1) =>
        LET initial == hist[1].v
        IN  SliderElem_get_value(TheSlider) =
                IF initial = Null \/ initial = Zero THEN Midpoint(TheSlider) ELSE initial

\* the 'Heater Min Power' slider as simulations.ts constructs it, reading -100
C26_WitnessMidpoint ==
    /\ impl = "SliderElem" /\ Len(hist) = 1 /\ hist[1].v = Zero
    /\ DOMAIN controls = {"Heater Min Power"}
    /\ SliderElem_get_value(TheSlider) = Num(-100)

====
